---- MODULE Spec2Model ----
(***************************************************************************)
(* AISC 360-22 compression capacity of W columns (mlh2nd/aisc-w-columns).  *)
(*                                                                         *)
(* The library is a set of pure numerical functions over Python floats.    *)
(* The model keeps the library's arithmetic: a float is a decimal floating *)
(* point number <<m, e>> = m * 10^e with a four digit signed mantissa      *)
(* (1000 <= |m| <= 9999, or <<0, 0>> for zero) and an unbounded exponent,  *)
(* and every operation rounds its result to four digits, as every float    *)
(* operation of the source rounds to 53 bits.  The constants of the source *)
(* (0.90, 1.67, 2.25, 0.658, 0.877, 0.00001, 0.56, 1.49, 29000, 11200 ...) *)
(* are exact in this format.                                               *)
(***************************************************************************)
EXTENDS Integers, Sequences, FiniteSets, TLC

VARIABLES
    pc,          \* position of the running call ("idle" when none is running)
    fn,          \* the library function being called
    args,        \* arguments of the w_section_capacity call
    L,           \* the three unbraced lengths as rebound by lines 174-179
    loc,         \* the other locals of w_section_capacity
    warnings,    \* list of warning strings
    notes,       \* list of note strings
    report,      \* the report dict, in insertion order
    result,      \* what the call returned (<<>> before it returns)
    error,       \* the exception the call raised ("" when none)
    returned,    \* results of the earlier calls made with the same arguments
    unit         \* arguments and result of a direct call of a helper function

vars == <<pc, fn, args, L, loc, warnings, notes, report, result, error, returned, unit>>

-----------------------------------------------------------------------------
(* Floats *)

None == <<>>

Abs(n) == IF n < 0 THEN -n ELSE n

Sgn(n) == IF n < 0 THEN -1 ELSE IF n > 0 THEN 1 ELSE 0

RECURSIVE Pow10(_)
Pow10(k) == IF k <= 0 THEN 1 ELSE 10 * Pow10(k - 1)

RECURSIVE NumDigits(_)
NumDigits(n) == IF n < 10 THEN 1 ELSE 1 + NumDigits(n \div 10)

\* Round an integer mantissa to four digits (half away from zero).
Norm(m, e) ==
    IF m = 0 THEN <<0, 0>>
    ELSE LET a == Abs(m)
             d == NumDigits(a)
         IN  IF d <= 4
             THEN <<m * Pow10(4 - d), e - (4 - d)>>
             ELSE LET k == d - 4
                      q == (a + (Pow10(k) \div 2)) \div Pow10(k)
                  IN  IF q = 10000
                      THEN <<Sgn(m) * 1000, e + k + 1>>
                      ELSE <<Sgn(m) * q, e + k>>

\* A float literal: F(225, -2) is 2.25.
F(m, e) == Norm(m, e)

IsZero(a) == a[1] = 0

FNeg(a) == <<-a[1], a[2]>>

FMul(a, b) == Norm(a[1] * b[1], a[2] + b[2])

\* Python's float "/"; a zero divisor raises ZeroDivisionError, which the
\* callers test for before they divide.
FDiv(a, b) == Norm((a[1] * 100000) \div b[1], a[2] - b[2] - 5)

FAdd(a, b) ==
    IF a[1] = 0 THEN b
    ELSE IF b[1] = 0 THEN a
    ELSE LET hi == IF a[2] >= b[2] THEN a ELSE b
             lo == IF a[2] >= b[2] THEN b ELSE a
             d  == hi[2] - lo[2]
         IN  IF d > 5 THEN hi
             ELSE Norm(hi[1] * Pow10(d) + lo[1], lo[2])

FSub(a, b) == FAdd(a, FNeg(b))

FLt(a, b) == FSub(a, b)[1] < 0

FLe(a, b) == FSub(a, b)[1] <= 0

FGt(a, b) == FLt(b, a)

FMin(a, b) == IF FLt(b, a) THEN b ELSE a

FMax(a, b) == IF FGt(b, a) THEN b ELSE a

\* x**2
FSq(a) == FMul(a, a)

RECURSIVE ISqrtIter(_, _, _)
ISqrtIter(n, lo, hi) ==
    IF lo >= hi THEN lo
    ELSE LET mid == (lo + hi + 1) \div 2
         IN  IF mid * mid <= n THEN ISqrtIter(n, mid, hi)
             ELSE ISqrtIter(n, lo, mid - 1)

\* math.sqrt of a positive float
FSqrt(a) ==
    IF a[1] = 0 THEN <<0, 0>>
    ELSE LET odd == (a[2] % 2) # 0
             m   == IF odd THEN a[1] * 10 ELSE a[1]
             e   == IF odd THEN a[2] - 1 ELSE a[2]
         IN  Norm(ISqrtIter(m * 10000, 0, 40000), (e - 4) \div 2)

\* The float as a fixed point integer in units of 1/10000 (for 0 <= a < 100).
ToFixed(a) ==
    IF a[2] + 4 >= 0 THEN a[1] * Pow10(a[2] + 4)
    ELSE a[1] \div Pow10(-(a[2] + 4))

\* Integer division rounded to nearest.
RDiv(a, b) == (a + (b \div 2)) \div b

RECURSIVE ExpNegHorner(_, _)
\* exp(-y) = 1 - y(1 - y/2 (1 - y/3 (...))) in units of 1/10000, terms k..9
ExpNegHorner(y, k) ==
    IF k > 9 THEN 10000
    ELSE 10000 - RDiv(y * ExpNegHorner(y, k + 1), 10000 * k)

\* 0.658 ** x for 0 <= x <= 2.25, as exp(x * ln 0.658), ln 0.658 = -0.41855
Pow658(x) ==
    IF x[2] < -8 THEN F(1, 0)
    ELSE Norm(ExpNegHorner(RDiv(ToFixed(x) * 41855, 100000), 1), -4)

-----------------------------------------------------------------------------
(* steel_constants.py and the constants of compression.py *)

STEEL_ELASTIC_MODULUS == F(29000, 0)

STEEL_SHEAR_MODULUS == F(11200, 0)

PHI_C == F(90, -2)

OMEGA_C == F(167, -2)

\* Table E7.1: case -> <<c1, c2>>
EFFECTIVE_WIDTH_ADJUSTMENT_FACTORS ==
    [a |-> <<F(18, -2), F(131, -2)>>,
     b |-> <<F(20, -2), F(138, -2)>>,
     c |-> <<F(22, -2), F(149, -2)>>]

\* math.pi
PI == F(3142, -3)

SLENDERNESS_WARNING == "Slenderness ratio exceeds 200."

OFFSET_WARNING == "Torsional buckling results not valid with bracing offset in both axes."

SLENDER_NOTE == "Shape is slender for compression."

DESIGN_METHOD_ERROR == "Design method must be 'nominal', 'LRFD', or 'ASD'."

TABLE_CASE_ERROR == "Table case must be integer between 1 and 9."

-----------------------------------------------------------------------------
(* design_requirements.py *)

\* The outcome of a call that may raise: <<"return", value>> or
\* <<"raise", exception type, message>>.
Return(v) == <<"return", v>>

Raise(type, msg) == <<"raise", type, msg>>

is_slender_comp_Inclusive(wt_ratio, limiting_wt_ratio) == ~FLt(wt_ratio, limiting_wt_ratio)

is_slender_comp(wt_ratio, limiting_wt_ratio) == FGt(wt_ratio, limiting_wt_ratio)

\* sqrt(kc*E/Fy) with kc = None: None * float is a TypeError.
limiting_wt_ratio_comp(table_case, elastic_modulus, yield_strength, kc) ==
    LET root == FSqrt(FDiv(elastic_modulus, yield_strength))
    IN  CASE table_case = 1 -> Return(FMul(F(56, -2), root))
          [] table_case = 2 ->
                 IF kc = None
                 THEN Raise("TypeError", "unsupported operand type(s) for *: 'NoneType' and 'int'")
                 ELSE Return(FMul(F(64, -2),
                                  FSqrt(FDiv(FMul(kc, elastic_modulus), yield_strength))))
          [] table_case = 3 -> Return(FMul(F(45, -2), root))
          [] table_case = 4 -> Return(FMul(F(75, -2), root))
          [] table_case = 5 -> Return(FMul(F(149, -2), root))
          [] table_case = 6 -> Return(FMul(F(140, -2), root))
          [] table_case = 7 -> Return(FMul(F(40, -2), root))
          [] table_case = 8 -> Return(FMul(F(149, -2), root))
          [] table_case = 9 -> Return(FDiv(FMul(F(11, -2), elastic_modulus), yield_strength))
          [] OTHER -> Raise("ValueError", TABLE_CASE_ERROR)

w_is_slender_comp_TwoKdes(flange_width, flange_thickness, section_depth, kdes, web_thickness, yield_stress, elastic_modulus) ==
    LET flange_wt_ratio == FDiv(flange_width, FMul(F(2, 0), flange_thickness))
        web_height == FSub(section_depth, FMul(F(2, 0), kdes))
        web_wt_ratio == FDiv(web_height, web_thickness)
        flange_limiting_wt_ratio == limiting_wt_ratio_comp(1, elastic_modulus, yield_stress, None)[2]
        web_limiting_wt_ratio == limiting_wt_ratio_comp(5, elastic_modulus, yield_stress, None)[2]
    IN  FGt(flange_wt_ratio, flange_limiting_wt_ratio)
        \/ FGt(web_wt_ratio, web_limiting_wt_ratio)

w_is_slender_comp(flange_width, flange_thickness, section_depth, kdes, web_thickness, yield_stress, elastic_modulus) ==
    LET flange_wt_ratio == FDiv(flange_width, FMul(F(2, 0), flange_thickness))
        web_height == FSub(section_depth, kdes)
        web_wt_ratio == FDiv(web_height, web_thickness)
        flange_limiting_wt_ratio == limiting_wt_ratio_comp(1, elastic_modulus, yield_stress, None)[2]
        web_limiting_wt_ratio == limiting_wt_ratio_comp(5, elastic_modulus, yield_stress, None)[2]
    IN  FGt(flange_wt_ratio, flange_limiting_wt_ratio)
        \/ FGt(web_wt_ratio, web_limiting_wt_ratio)

-----------------------------------------------------------------------------
(* compression.py *)

member_slenderness(unbraced_length, radius_of_gyration, effective_length_factor) ==
    FDiv(FMul(effective_length_factor, unbraced_length), radius_of_gyration)

\* Equation E3-4
elastic_buckling_stress(slenderness, elastic_modulus) ==
    FDiv(FMul(FSq(PI), elastic_modulus), FSq(slenderness))

\* Equation E4-2
ft_elastic_buckling_stress_doubly_symmetric(z_effective_length, warping_constant, Ix, Iy, J, elastic_modulus, shear_modulus) ==
    FDiv(FMul(FAdd(FDiv(FMul(FMul(FSq(PI), elastic_modulus), warping_constant),
                        FSq(z_effective_length)),
                   FMul(shear_modulus, J)),
              F(1, 0)),
         FAdd(Ix, Iy))

nominal_flexural_buckling_stress_Strict(yield_stress, elastic_stress, slenderness, elastic_modulus) ==
    LET Fe == IF elastic_stress = None \/ IsZero(elastic_stress)
              THEN elastic_buckling_stress(slenderness, elastic_modulus)
              ELSE elastic_stress
    IN  IF FLt(FDiv(yield_stress, Fe), F(225, -2))
        THEN FMul(Pow658(FDiv(yield_stress, Fe)), yield_stress)
        ELSE FMul(F(877, -3), Fe)

\* Equations E3-2 and E3-3.  elastic_stress = None (or 0.0, "not elastic_stress")
\* takes the stress from the slenderness by Equation E3-4.
nominal_flexural_buckling_stress(yield_stress, elastic_stress, slenderness, elastic_modulus) ==
    LET Fe == IF elastic_stress = None \/ IsZero(elastic_stress)
              THEN elastic_buckling_stress(slenderness, elastic_modulus)
              ELSE elastic_stress
    IN  IF FLe(FDiv(yield_stress, Fe), F(225, -2))
        THEN FMul(Pow658(FDiv(yield_stress, Fe)), yield_stress)
        ELSE FMul(F(877, -3), Fe)

nominal_ft_buckling_stress_doubly_symmetric(yield_stress, z_effective_length, warping_constant, Ix, Iy, J, elastic_modulus, shear_modulus) ==
    LET elastic_stress == ft_elastic_buckling_stress_doubly_symmetric(
                              z_effective_length, warping_constant, Ix, Iy, J,
                              elastic_modulus, shear_modulus)
    IN  nominal_flexural_buckling_stress(yield_stress, elastic_stress, None, STEEL_ELASTIC_MODULUS)

\* Equation E4-10
ft_elastic_buckling_stress_i_minor_axis_offset(z_effective_length, Iy, J, area, r0, h0, y_offset, elastic_modulus, shear_modulus) ==
    FDiv(FMul(FAdd(FMul(FDiv(FMul(FMul(FSq(PI), elastic_modulus), Iy),
                             FSq(z_effective_length)),
                        FAdd(FDiv(FSq(h0), F(4, 0)), FSq(y_offset))),
                   FMul(shear_modulus, J)),
              F(1, 0)),
         FMul(area, FSq(r0)))

\* Equation E4-12
ft_elastic_buckling_stress_i_major_axis_offset(z_effective_length, Ix, Iy, J, area, r0, h0, x_offset, elastic_modulus, shear_modulus) ==
    FDiv(FMul(FAdd(FMul(FDiv(FMul(FMul(FSq(PI), elastic_modulus), Iy),
                             FSq(z_effective_length)),
                        FAdd(FDiv(FSq(h0), F(4, 0)),
                             FMul(FDiv(Ix, Iy), FSq(x_offset)))),
                   FMul(shear_modulus, J)),
              F(1, 0)),
         FMul(area, FSq(r0)))

\* "Equation E4-11": returns the sum of the squares
calc_r0(rx, ry, xa, ya) == FAdd(FAdd(FAdd(FSq(rx), FSq(ry)), FSq(xa)), FSq(ya))

nominal_ft_buckling_stress_i_bracing_offset(yield_stress, z_effective_length, Ix, Iy, J, area, r0, h0, x_offset, y_offset, elastic_modulus, shear_modulus) ==
    LET x_elastic_stress == ft_elastic_buckling_stress_i_major_axis_offset(
                                z_effective_length, Ix, Iy, J, area, r0, h0, x_offset,
                                elastic_modulus, shear_modulus)
        y_elastic_stress == ft_elastic_buckling_stress_i_minor_axis_offset(
                                z_effective_length, Iy, J, area, r0, h0, y_offset,
                                elastic_modulus, shear_modulus)
        elastic_stress == FMin(x_elastic_stress, y_elastic_stress)
    IN  nominal_flexural_buckling_stress(yield_stress, elastic_stress, None, STEEL_ELASTIC_MODULUS)

\* Equation E7-5
elastic_local_buckling_stress(c2, wt_ratio, limiting_wt_ratio, yield_stress) ==
    FMul(FSq(FDiv(FMul(c2, limiting_wt_ratio), wt_ratio)), yield_stress)

\* Equations E7-2 and E7-3
effective_width(nominal_width, wt_ratio, limiting_wt_ratio, yield_stress, nominal_stress, elastic_local_stress, c1) ==
    IF FLe(wt_ratio, FMul(limiting_wt_ratio, FSqrt(FDiv(yield_stress, nominal_stress))))
    THEN nominal_width
    ELSE FMul(FMul(nominal_width,
                   FSub(F(1, 0), FMul(c1, FSqrt(FDiv(elastic_local_stress, nominal_stress))))),
              FSqrt(FDiv(elastic_local_stress, nominal_stress)))

w_section_effective_area(gross_area, flange_width, flange_thickness, section_depth, kdes, web_thickness, yield_stress, nominal_stress) ==
    LET flange_wt_ratio == FDiv(flange_width, FMul(F(2, 0), flange_thickness))
        web_height == FSub(section_depth, FMul(F(2, 0), kdes))
        web_wt_ratio == FDiv(web_height, web_thickness)
        flange_c1 == EFFECTIVE_WIDTH_ADJUSTMENT_FACTORS.c[1]
        flange_c2 == EFFECTIVE_WIDTH_ADJUSTMENT_FACTORS.c[2]
        flange_limiting_wt_ratio ==
            limiting_wt_ratio_comp(1, STEEL_ELASTIC_MODULUS, yield_stress, None)[2]
        flange_elastic_local_buckling_stress ==
            elastic_local_buckling_stress(flange_c2, flange_wt_ratio,
                                          flange_limiting_wt_ratio, yield_stress)
        effective_flange_width ==
            effective_width(flange_width, flange_wt_ratio, flange_limiting_wt_ratio,
                            yield_stress, nominal_stress,
                            flange_elastic_local_buckling_stress, flange_c1)
        web_c1 == EFFECTIVE_WIDTH_ADJUSTMENT_FACTORS.a[1]
        web_c2 == EFFECTIVE_WIDTH_ADJUSTMENT_FACTORS.a[2]
        web_limiting_wt_ratio ==
            limiting_wt_ratio_comp(5, STEEL_ELASTIC_MODULUS, yield_stress, None)[2]
        web_elastic_local_buckling_stress ==
            elastic_local_buckling_stress(web_c2, web_wt_ratio, web_limiting_wt_ratio, yield_stress)
        effective_web_height ==
            effective_width(web_height, web_wt_ratio, web_limiting_wt_ratio,
                            yield_stress, nominal_stress,
                            web_elastic_local_buckling_stress, web_c1)
    IN  IF is_slender_comp(flange_wt_ratio, flange_limiting_wt_ratio)
           \/ is_slender_comp(web_wt_ratio, web_limiting_wt_ratio)
        THEN FSub(FSub(gross_area,
                       FMul(FMul(F(2, 0), flange_thickness),
                            FSub(flange_width, effective_flange_width))),
                  FMul(web_thickness, FSub(web_height, effective_web_height)))
        ELSE gross_area

-----------------------------------------------------------------------------
(* The calls explored *)

\* How many more times w_section_capacity is called with the same arguments
\* and another design method.
MaxRecalls == 2

\* Section properties: area, Ix, Iy give rx = 4 and ry = 2.  With Fy = 50 and
\* E = 29000 the limiting ratios are 13.48 (flange) and 35.87 (web).
SectionBase ==
    [area |-> F(16, 0), Ix |-> F(256, 0), Iy |-> F(64, 0), J |-> F(5, -1),
     warping_constant |-> F(500, 0), flange_width |-> F(8, 0),
     flange_thickness |-> F(5, -1), section_depth |-> F(10, 0), kdes |-> F(1, 0),
     web_thickness |-> F(5, -1)]

\* flange 8, web 16 (18 by depth - kdes): not slender
SectionCompact == SectionBase

\* flange 16, web 40: both slender
SectionSlender ==
    [SectionBase EXCEPT !.flange_thickness = F(25, -2), !.web_thickness = F(2, -1)]

\* web 32 by depth - 2 kdes, 36 by depth - kdes
SectionWebEdge == [SectionBase EXCEPT !.web_thickness = F(25, -2)]

\* flange 14.29: slender for E = 29000, not for E = 35000
SectionFlangeEdge == [SectionBase EXCEPT !.flange_thickness = F(28, -2)]

\* flange 5.6 and web 14.9: exactly the limiting ratios for Fy = 290
SectionAtLimit ==
    [SectionBase EXCEPT !.flange_width = F(112, -1), !.flange_thickness = F(1, 0),
                        !.section_depth = F(945, -2)]

\* flange 15.39, just above 13.48 sqrt(Fy/Fn) for the stress Fn of a slenderness of 60
SectionFlangeBand ==
    [SectionBase EXCEPT !.area = F(9, 0), !.Ix = F(144, 0), !.Iy = F(36, 0),
                        !.flange_thickness = F(2599, -4)]

Sections ==
    {SectionCompact, SectionSlender, SectionWebEdge, SectionFlangeEdge, SectionFlangeBand}

LengthsX == {F(0, 0), F(840, 0)}

LengthsY == {F(0, 0), F(120, 0), F(400, 0)}

LengthsZ == {F(0, 0), F(120, 0)}

LengthFactors == {F(0, 0), F(1, 0)}

BraceOffsets == {F(0, 0), F(3, 0)}

YieldStresses == {F(50, 0)}

ElasticModuli == {STEEL_ELASTIC_MODULUS, F(35000, 0)}

ValidDesignMethods == {"nominal", "LRFD", "ASD"}

DesignMethods == ValidDesignMethods \cup {"lrfd"}

CapacityArgs(sec, lx, ly, lz, fy, dm, em, kx, ky, kz, xo, yo, rr) ==
    [area |-> sec.area, Ix |-> sec.Ix, Iy |-> sec.Iy, J |-> sec.J,
     warping_constant |-> sec.warping_constant, flange_width |-> sec.flange_width,
     flange_thickness |-> sec.flange_thickness, section_depth |-> sec.section_depth,
     kdes |-> sec.kdes, web_thickness |-> sec.web_thickness,
     unbraced_length_x |-> lx, unbraced_length_y |-> ly, unbraced_length_z |-> lz,
     yield_stress |-> fy, design_method |-> dm,
     elastic_modulus |-> em, shear_modulus |-> STEEL_SHEAR_MODULUS,
     kx |-> kx, ky |-> ky, kz |-> kz,
     x_brace_offset |-> xo, y_brace_offset |-> yo, return_report |-> rr]

-----------------------------------------------------------------------------
(* State machine: one call at a time *)

NoLocals ==
    [rx |-> None, ry |-> None, r0 |-> None, h0 |-> None,
     slenderness_x |-> None, slenderness_y |-> None, design_slenderness |-> None,
     effective_length_z |-> None, flexural_buckling_stress |-> None,
     torsional_buckling_stress |-> None, nominal_stress |-> None,
     effective_area |-> None, slender |-> None, nominal_compressive_strength |-> None]

Init ==
    /\ pc = "idle"
    /\ fn = ""
    /\ args = None
    /\ L = None
    /\ loc = NoLocals
    /\ warnings = <<>>
    /\ notes = <<>>
    /\ report = <<>>
    /\ result = None
    /\ error = ""
    /\ returned = <<>>
    /\ unit = None

\* dict.update of one key: a new key is appended, an old key keeps its place
DictUpdate_Front(d, key, value) == <<<<key, value[1], value[2]>>>> \o d

DictUpdate(d, key, value) ==
    IF \E i \in 1..Len(d) : d[i][1] = key
    THEN [i \in 1..Len(d) |-> IF d[i][1] = key THEN <<key, value[1], value[2]>> ELSE d[i]]
    ELSE Append(d, <<key, value[1], value[2]>>)

\* lines 174-179: "if unbraced_length == 0: unbraced_length = 0.00001"
SubstituteZero_Keeps(unbraced_length) == unbraced_length

SubstituteZero(unbraced_length) ==
    IF IsZero(unbraced_length) THEN F(1, -5) ELSE unbraced_length

\* line 191: "if design_slenderness > 200"
ExceedsSlendernessLimit_Inclusive(design_slenderness) == ~FLt(design_slenderness, F(200, 0))

ExceedsSlendernessLimit(design_slenderness) == FGt(design_slenderness, F(200, 0))

\* line 197: "if x_brace_offset or y_brace_offset"
AnyBraceOffset(x_brace_offset, y_brace_offset) ==
    ~IsZero(x_brace_offset) \/ ~IsZero(y_brace_offset)

\* line 207: "if x_brace_offset and y_brace_offset"
BothBraceOffsets_Any(x_brace_offset, y_brace_offset) ==
    ~IsZero(x_brace_offset) \/ ~IsZero(y_brace_offset)

BothBraceOffsets(x_brace_offset, y_brace_offset) ==
    ~IsZero(x_brace_offset) /\ ~IsZero(y_brace_offset)

\* line 210: min(flexural_buckling_stress, torsional_buckling_stress)
GoverningStress_Max(flexural_buckling_stress, torsional_buckling_stress) ==
    FMax(flexural_buckling_stress, torsional_buckling_stress)

GoverningStress(flexural_buckling_stress, torsional_buckling_stress) ==
    FMin(flexural_buckling_stress, torsional_buckling_stress)

\* lines 222-242: the case of the match statement that design_method selects
\* ("_" is the wildcard case)
MatchCase_Lenient(design_method) ==
    CASE design_method \in {"nominal", "LRFD", "ASD"} -> design_method
      [] design_method = "lrfd" -> "LRFD"
      [] OTHER -> "nominal"

MatchCase(design_method) ==
    IF design_method \in {"nominal", "LRFD", "ASD"} THEN design_method ELSE "_"

\* The caller binds the parameters of w_section_capacity.
Call(a) ==
    /\ pc = "idle"
    /\ pc' = "L174"
    /\ fn' = "w_section_capacity"
    /\ args' = a
    /\ L' = [x |-> a.unbraced_length_x, y |-> a.unbraced_length_y, z |-> a.unbraced_length_z]
    /\ UNCHANGED <<loc, warnings, notes, report, result, error, returned, unit>>

\* lines 173-182
ZeroLengths ==
    /\ pc = "L174"
    /\ L' = [x |-> SubstituteZero(L.x), y |-> SubstituteZero(L.y), z |-> SubstituteZero(L.z)]
    /\ warnings' = <<>>
    /\ notes' = <<>>
    /\ report' = <<>>
    /\ pc' = "L183"
    /\ UNCHANGED <<fn, args, loc, result, error, returned, unit>>

\* lines 183-186
SectionRadii ==
    /\ pc = "L183"
    /\ LET rx == FSqrt(FDiv(args.Ix, args.area))
           ry == FSqrt(FDiv(args.Iy, args.area))
       IN  loc' = [loc EXCEPT !.rx = rx, !.ry = ry,
                              !.r0 = calc_r0(rx, ry, args.x_brace_offset, args.y_brace_offset),
                              !.h0 = FSub(args.section_depth, args.flange_thickness)]
    /\ pc' = "L187"
    /\ UNCHANGED <<fn, args, L, warnings, notes, report, result, error, returned, unit>>

\* lines 187-192
Slenderness ==
    /\ pc = "L187"
    /\ LET slenderness_x == member_slenderness(L.x, loc.rx, args.kx)
           slenderness_y == member_slenderness(L.y, loc.ry, args.ky)
           design_slenderness == FMax(slenderness_x, slenderness_y)
       IN  /\ loc' = [loc EXCEPT !.slenderness_x = slenderness_x,
                                 !.slenderness_y = slenderness_y,
                                 !.design_slenderness = design_slenderness]
           /\ report' = DictUpdate(report, "Governing slenderness ratio, Lc/r",
                                   <<design_slenderness, "">>)
           /\ warnings' = IF ExceedsSlendernessLimit(design_slenderness)
                          THEN Append(warnings, SLENDERNESS_WARNING)
                          ELSE warnings
    /\ pc' = "L193"
    /\ UNCHANGED <<fn, args, L, notes, result, error, returned, unit>>

\* lines 193-196; elastic_buckling_stress divides by slenderness**2
Flexural ==
    /\ pc = "L193"
    /\ LET effective_length_z == FMul(L.z, args.kz)
       IN  IF IsZero(FSq(loc.design_slenderness))
           THEN /\ loc' = [loc EXCEPT !.effective_length_z = effective_length_z]
                /\ pc' = "raised"
                /\ error' = "ZeroDivisionError"
                /\ UNCHANGED report
           ELSE LET flexural_buckling_stress ==
                        nominal_flexural_buckling_stress(args.yield_stress, None,
                                                         loc.design_slenderness,
                                                         args.elastic_modulus)
                IN  /\ loc' = [loc EXCEPT !.effective_length_z = effective_length_z,
                                          !.flexural_buckling_stress = flexural_buckling_stress]
                    /\ report' = DictUpdate(report,
                                            "Nominal flexural buckling stress (Eqns E3-2, E3-3)",
                                            <<flexural_buckling_stress, "stress">>)
                    /\ pc' = "L197"
                    /\ UNCHANGED error
    /\ UNCHANGED <<fn, args, L, warnings, notes, result, returned, unit>>

\* lines 197-208; both torsional formulas divide by z_effective_length**2
Torsional ==
    /\ pc = "L197"
    /\ IF IsZero(FSq(loc.effective_length_z))
       THEN /\ pc' = "raised"
            /\ error' = "ZeroDivisionError"
            /\ UNCHANGED <<loc, report, warnings>>
       ELSE /\ IF AnyBraceOffset(args.x_brace_offset, args.y_brace_offset)
               THEN LET torsional_buckling_stress ==
                            nominal_ft_buckling_stress_i_bracing_offset(
                                args.yield_stress, loc.effective_length_z, args.Ix, args.Iy,
                                args.J, args.area, loc.r0, loc.h0,
                                args.x_brace_offset, args.y_brace_offset,
                                args.elastic_modulus, args.shear_modulus)
                    IN  /\ loc' = [loc EXCEPT !.torsional_buckling_stress =
                                                   torsional_buckling_stress]
                        /\ report' = DictUpdate(report,
                                                "Nominal torsional buckling stress (Eqn E4-2)",
                                                <<torsional_buckling_stress, "stress">>)
               ELSE LET torsional_buckling_stress ==
                            nominal_ft_buckling_stress_doubly_symmetric(
                                args.yield_stress, loc.effective_length_z,
                                args.warping_constant, args.Ix, args.Iy, args.J,
                                args.elastic_modulus, args.shear_modulus)
                    IN  /\ loc' = [loc EXCEPT !.torsional_buckling_stress =
                                                   torsional_buckling_stress]
                        /\ report' = DictUpdate(report,
                                                "Nominal torsional buckling stress (Eqns E4-10, E4-12)",
                                                <<torsional_buckling_stress, "stress">>)
            /\ warnings' = IF BothBraceOffsets(args.x_brace_offset, args.y_brace_offset)
                           THEN Append(warnings, OFFSET_WARNING)
                           ELSE warnings
            /\ pc' = "L210"
            /\ UNCHANGED error
    /\ UNCHANGED <<fn, args, L, notes, result, returned, unit>>

\* lines 210-211
Governing ==
    /\ pc = "L210"
    /\ LET nominal_stress == GoverningStress(loc.flexural_buckling_stress,
                                             loc.torsional_buckling_stress)
       IN  /\ loc' = [loc EXCEPT !.nominal_stress = nominal_stress]
           /\ report' = DictUpdate(report, "Governing nominal buckling stress, Fn",
                                   <<nominal_stress, "stress">>)
    /\ pc' = "L212"
    /\ UNCHANGED <<fn, args, L, warnings, notes, result, error, returned, unit>>

\* lines 212-215
EffectiveArea ==
    /\ pc = "L212"
    /\ LET effective_area ==
               w_section_effective_area(args.area, args.flange_width, args.flange_thickness,
                                        args.section_depth, args.kdes, args.web_thickness,
                                        args.yield_stress, loc.nominal_stress)
       IN  /\ loc' = [loc EXCEPT !.effective_area = effective_area]
           /\ report' = DictUpdate(report,
                                   "Effective area accounting for slender elements, Ae (Sect. E7)",
                                   <<effective_area, "area">>)
    /\ pc' = "L216"
    /\ UNCHANGED <<fn, args, L, warnings, notes, result, error, returned, unit>>

\* lines 216-218
SlenderNote ==
    /\ pc = "L216"
    /\ LET slender == w_is_slender_comp(args.flange_width, args.flange_thickness,
                                        args.section_depth, args.kdes, args.web_thickness,
                                        args.yield_stress, args.elastic_modulus)
       IN  /\ loc' = [loc EXCEPT !.slender = slender]
           /\ notes' = IF slender THEN Append(notes, SLENDER_NOTE) ELSE notes
    /\ pc' = "L219"
    /\ UNCHANGED <<fn, args, L, warnings, report, result, error, returned, unit>>

\* lines 219-220
NominalStrength ==
    /\ pc = "L219"
    /\ LET nominal_compressive_strength == FMul(loc.nominal_stress, loc.effective_area)
       IN  /\ loc' = [loc EXCEPT !.nominal_compressive_strength = nominal_compressive_strength]
           /\ report' = DictUpdate(report,
                                   "Nominal compressive strength, Pn (Eqns E3-1, E4-1, E7-1)",
                                   <<nominal_compressive_strength, "force">>)
    /\ pc' = "L222"
    /\ UNCHANGED <<fn, args, L, warnings, notes, result, error, returned, unit>>

\* lines 229 and 236
ASDStrength_Multiplies(nominal_compressive_strength) ==
    FMul(nominal_compressive_strength, OMEGA_C)

LRFDStrength(nominal_compressive_strength) == FMul(PHI_C, nominal_compressive_strength)

ASDStrength(nominal_compressive_strength) == FDiv(nominal_compressive_strength, OMEGA_C)

\* lines 222-243
MatchDesignMethod ==
    /\ pc = "L222"
    /\ LET Pn == loc.nominal_compressive_strength
           case == MatchCase(args.design_method)
       IN  CASE case = "nominal" ->
                    /\ result' = <<IF args.return_report THEN report ELSE Pn, warnings, notes>>
                    /\ pc' = "returned"
                    /\ UNCHANGED <<report, error>>
             [] case = "LRFD" ->
                    LET factored_strength == LRFDStrength(Pn)
                        rep == DictUpdate(DictUpdate(report, "Resistance factor, phi",
                                                     <<PHI_C, "">>),
                                          "Factored compressive strength, phi Pn",
                                          <<factored_strength, "force">>)
                    IN  /\ report' = rep
                        /\ result' = <<IF args.return_report THEN rep ELSE factored_strength,
                                       warnings, notes>>
                        /\ pc' = "returned"
                        /\ UNCHANGED error
             [] case = "ASD" ->
                    LET allowable_strength == ASDStrength(Pn)
                        rep == DictUpdate(DictUpdate(report, "Safety factor, Omega",
                                                     <<OMEGA_C, "">>),
                                          "Allowable compressive strength, Pn/Omega",
                                          <<allowable_strength, "force">>)
                    IN  /\ report' = rep
                        /\ result' = <<IF args.return_report THEN rep ELSE allowable_strength,
                                       warnings, notes>>
                        /\ pc' = "returned"
                        /\ UNCHANGED error
             [] OTHER ->
                    /\ pc' = "raised"
                    /\ error' = "ValueError"
                    /\ UNCHANGED <<report, result>>
    /\ UNCHANGED <<fn, args, L, loc, warnings, notes, returned, unit>>

\* The order in which a caller that wants all three strengths asks for them.
MethodOrder == <<"nominal", "LRFD", "ASD">>

\* The caller calls w_section_capacity again with the same arguments and the
\* next design method, keeping what the earlier calls returned.
CallAgain(dm) ==
    /\ pc = "returned"
    /\ fn = "w_section_capacity"
    /\ ~args.return_report
    /\ Len(returned) < MaxRecalls
    /\ \E i \in 1..(Len(MethodOrder) - 1) :
           MethodOrder[i] = args.design_method /\ MethodOrder[i + 1] = dm
    /\ returned' = Append(returned, <<args.design_method, result>>)
    /\ args' = [args EXCEPT !.design_method = dm]
    /\ L' = [x |-> args.unbraced_length_x, y |-> args.unbraced_length_y,
             z |-> args.unbraced_length_z]
    /\ loc' = NoLocals
    /\ result' = None
    /\ pc' = "L174"
    /\ UNCHANGED <<fn, warnings, notes, report, error, unit>>

\* Direct calls of the helper functions, each a single expression.
CallNominalFlexural(fy, fe) ==
    /\ pc = "idle"
    /\ fn' = "nominal_flexural_buckling_stress"
    /\ unit' = [yield_stress |-> fy, elastic_stress |-> fe,
                result |-> nominal_flexural_buckling_stress(fy, fe, None, STEEL_ELASTIC_MODULUS)]
    /\ pc' = "returned"
    /\ UNCHANGED <<args, L, loc, warnings, notes, report, result, error, returned>>

CallEffectiveArea(sec, fy, fnom) ==
    /\ pc = "idle"
    /\ fn' = "w_section_effective_area"
    /\ unit' = [section |-> sec, yield_stress |-> fy, nominal_stress |-> fnom,
                result |-> w_section_effective_area(sec.area, sec.flange_width,
                                                    sec.flange_thickness, sec.section_depth,
                                                    sec.kdes, sec.web_thickness, fy, fnom)]
    /\ pc' = "returned"
    /\ UNCHANGED <<args, L, loc, warnings, notes, report, result, error, returned>>

CallLimitingRatio(tc, em, fy, kc) ==
    /\ pc = "idle"
    /\ fn' = "limiting_wt_ratio_comp"
    /\ LET outcome == limiting_wt_ratio_comp(tc, em, fy, kc)
       IN  /\ unit' = [table_case |-> tc, elastic_modulus |-> em, yield_strength |-> fy,
                       kc |-> kc,
                       result |-> IF outcome[1] = "return" THEN outcome[2] ELSE None,
                       message |-> IF outcome[1] = "raise" THEN outcome[3] ELSE ""]
           /\ pc' = IF outcome[1] = "return" THEN "returned" ELSE "raised"
           /\ error' = IF outcome[1] = "raise" THEN outcome[2] ELSE ""
    /\ UNCHANGED <<args, L, loc, warnings, notes, report, result, returned>>

\* Inputs of the direct calls
UnitYieldStresses == {F(36, 0), F(45, 0), F(50, 0), F(290, 0)}

\* Fy / Fe = 2.25 exactly for Fy = 45, Fe = 20
UnitElasticStresses == {F(5, 0), F(16, 0), F(20, 0), F(22, 0), F(2222, -2), F(50, 0), F(1000, 0)}

UnitNominalStresses == {F(5, 0), F(20, 0), F(36, 0), F(50, 0), F(400, 0)}

UnitSections == Sections \cup {SectionAtLimit}

TableCases == 0..10

UnitKc == {None, F(35, -2), F(76, -2)}

Next ==
    \/ /\ pc = "idle"
       /\ \E sec \in Sections, lx \in LengthsX, ly \in LengthsY, lz \in LengthsZ,
             fy \in YieldStresses, dm \in DesignMethods, em \in ElasticModuli,
             kx \in LengthFactors, ky \in LengthFactors, kz \in LengthFactors,
             xo \in BraceOffsets, yo \in BraceOffsets, rr \in BOOLEAN :
               Call(CapacityArgs(sec, lx, ly, lz, fy, dm, em, kx, ky, kz, xo, yo, rr))
    \/ ZeroLengths
    \/ SectionRadii
    \/ Slenderness
    \/ Flexural
    \/ Torsional
    \/ Governing
    \/ EffectiveArea
    \/ SlenderNote
    \/ NominalStrength
    \/ MatchDesignMethod
    \/ \E dm \in ValidDesignMethods : CallAgain(dm)
    \/ \E fy \in UnitYieldStresses, fe \in UnitElasticStresses : CallNominalFlexural(fy, fe)
    \/ \E sec \in UnitSections, fy \in UnitYieldStresses, fnom \in UnitNominalStresses :
          CallEffectiveArea(sec, fy, fnom)
    \/ \E tc \in TableCases, em \in ElasticModuli, fy \in YieldStresses, kc \in UnitKc :
          CallLimitingRatio(tc, em, fy, kc)

Spec == Init /\ [][Next]_vars

-----------------------------------------------------------------------------
(* Properties *)

CapacityCall == fn = "w_section_capacity"

Has(list, x) == \E i \in 1..Len(list) : list[i] = x

\* What the calls made so far with these arguments returned, the call that
\* has just returned included: <<design method, <<value, warnings, notes>>>>
Results ==
    IF CapacityCall /\ pc = "returned"
    THEN Append(returned, <<args.design_method, result>>)
    ELSE returned

\* C1: with all other arguments equal, the LRFD value is 0.90 times the
\* nominal value, the ASD value is the nominal value divided by 1.67, and
\* the three calls return the same warnings and the same notes.
C1_MethodRatios ==
    CapacityCall =>
        \A i, j \in 1..Len(Results) :
            LET mi == Results[i][1]
                ri == Results[i][2]
                mj == Results[j][1]
                rj == Results[j][2]
            IN  /\ ri[2] = rj[2]
                /\ ri[3] = rj[3]
                /\ (mi = "nominal" /\ mj = "LRFD") => rj[1] = FMul(F(90, -2), ri[1])
                /\ (mi = "nominal" /\ mj = "ASD") => rj[1] = FDiv(ri[1], F(167, -2))

\* All three methods have returned for a section with a warning and a note.
C1_Witness ==
    /\ CapacityCall
    /\ pc = "returned"
    /\ Len(returned) = 2
    /\ args.design_method = "ASD"
    /\ returned[1][1] = "nominal"
    /\ returned[2][1] = "LRFD"
    /\ Len(result[2]) = 2
    /\ Len(result[3]) = 1
    /\ FLt(result[1], returned[2][2][1])
    /\ FLt(returned[2][2][1], returned[1][2][1])

\* C2: the governing nominal stress is the smaller of the flexural and the
\* torsional stress, with or without brace offsets; it is the stress given to
\* the effective-area computation, and the nominal strength is that stress
\* times the effective area.
C2_GoverningIsMin ==
    CapacityCall =>
        /\ loc.nominal_stress # None =>
               /\ loc.nominal_stress \in
                      {loc.flexural_buckling_stress, loc.torsional_buckling_stress}
               /\ FLe(loc.nominal_stress, loc.flexural_buckling_stress)
               /\ FLe(loc.nominal_stress, loc.torsional_buckling_stress)
        /\ loc.effective_area # None =>
               loc.effective_area =
                   w_section_effective_area(args.area, args.flange_width,
                                            args.flange_thickness, args.section_depth,
                                            args.kdes, args.web_thickness, args.yield_stress,
                                            FMin(loc.flexural_buckling_stress,
                                                 loc.torsional_buckling_stress))
        /\ loc.nominal_compressive_strength # None =>
               loc.nominal_compressive_strength =
                   FMul(FMin(loc.flexural_buckling_stress, loc.torsional_buckling_stress),
                        loc.effective_area)
        /\ (pc = "returned" /\ ~args.return_report /\ args.design_method = "nominal") =>
               result[1] = FMul(FMin(loc.flexural_buckling_stress,
                                     loc.torsional_buckling_stress),
                                loc.effective_area)

\* Flexural buckling governs, with a brace offset, and the governing stress
\* reduces the area.
C2_Witness ==
    /\ CapacityCall
    /\ pc = "returned"
    /\ ~IsZero(args.y_brace_offset)
    /\ FLt(loc.flexural_buckling_stress, loc.torsional_buckling_stress)
    /\ FLt(loc.effective_area, args.area)
    /\ ~args.return_report

\* C3: nominal_flexural_buckling_stress returns 0.658^(Fy/Fe) Fy when
\* Fy/Fe <= 2.25 (equality included) and 0.877 Fe when Fy/Fe > 2.25, both
\* called directly and as the flexural step of w_section_capacity.
C3_TwoRegimes ==
    /\ (fn = "nominal_flexural_buckling_stress" /\ pc = "returned") =>
           LET Fy == unit.yield_stress
               Fe == unit.elastic_stress
               ratio == FDiv(Fy, Fe)
           IN  /\ ~FGt(ratio, F(225, -2)) => unit.result = FMul(Pow658(ratio), Fy)
               /\ FGt(ratio, F(225, -2)) => unit.result = FMul(F(877, -3), Fe)
    /\ (CapacityCall /\ loc.flexural_buckling_stress # None) =>
           LET Fy == args.yield_stress
               Fe == FDiv(FMul(FMul(PI, PI), args.elastic_modulus),
                          FMul(loc.design_slenderness, loc.design_slenderness))
               ratio == FDiv(Fy, Fe)
           IN  /\ ~FGt(ratio, F(225, -2)) =>
                      loc.flexural_buckling_stress = FMul(Pow658(ratio), Fy)
               /\ FGt(ratio, F(225, -2)) =>
                      loc.flexural_buckling_stress = FMul(F(877, -3), Fe)

\* A direct call with Fy/Fe = 2.25 exactly returned the inelastic value.
C3_Witness ==
    /\ fn = "nominal_flexural_buckling_stress"
    /\ pc = "returned"
    /\ FDiv(unit.yield_stress, unit.elastic_stress) = F(225, -2)
    /\ unit.result = FMul(Pow658(F(225, -2)), unit.yield_stress)
    /\ unit.result # FMul(F(877, -3), unit.elastic_stress)

\* The limiting ratios of Table B4.1a the effective area is computed with
FlangeLimit(fy, em) == FMul(F(56, -2), FSqrt(FDiv(em, fy)))

WebLimit(fy, em) == FMul(F(149, -2), FSqrt(FDiv(em, fy)))

\* C4: w_section_effective_area returns the gross area, for every nominal
\* stress, when neither bf/(2 tf) nor (d - 2 kdes)/tw is strictly greater than
\* its limiting ratio (case 1, case 5); equality is not slender.
C4_GrossAreaWhenNotSlender ==
    /\ (fn = "w_section_effective_area" /\ pc = "returned") =>
           LET sec == unit.section
               flange == FDiv(sec.flange_width, FMul(F(2, 0), sec.flange_thickness))
               web == FDiv(FSub(sec.section_depth, FMul(F(2, 0), sec.kdes)),
                           sec.web_thickness)
           IN  (/\ ~FGt(flange, FlangeLimit(unit.yield_stress, F(29000, 0)))
                /\ ~FGt(web, WebLimit(unit.yield_stress, F(29000, 0))))
               => unit.result = sec.area
    /\ (CapacityCall /\ loc.effective_area # None) =>
           LET flange == FDiv(args.flange_width, FMul(F(2, 0), args.flange_thickness))
               web == FDiv(FSub(args.section_depth, FMul(F(2, 0), args.kdes)),
                           args.web_thickness)
           IN  (/\ ~FGt(flange, FlangeLimit(args.yield_stress, F(29000, 0)))
                /\ ~FGt(web, WebLimit(args.yield_stress, F(29000, 0))))
               => loc.effective_area = args.area

\* Both ratios are exactly at their limits and the nominal stress is high
\* enough for the effective widths to be smaller than the widths.
C4_Witness ==
    /\ fn = "w_section_effective_area"
    /\ pc = "returned"
    /\ FDiv(unit.section.flange_width, FMul(F(2, 0), unit.section.flange_thickness))
           = FlangeLimit(unit.yield_stress, F(29000, 0))
    /\ FDiv(FSub(unit.section.section_depth, FMul(F(2, 0), unit.section.kdes)),
            unit.section.web_thickness)
           = WebLimit(unit.yield_stress, F(29000, 0))
    /\ FGt(unit.nominal_stress, unit.yield_stress)
    /\ unit.result = unit.section.area

C6_InvalidCallsRaiseTableCaseError ==
    (/\ fn = "limiting_wt_ratio_comp"
     /\ \/ unit.table_case \notin 1..9
        \/ (unit.table_case = 2 /\ unit.kc = None))
    => /\ pc = "raised"
       /\ error = "ValueError"
       /\ unit.message = TABLE_CASE_ERROR
       /\ unit.result = None

PositiveFactors == args.kx[1] > 0 /\ args.ky[1] > 0 /\ args.kz[1] > 0

\* The state part of C7.
C7_Lengths ==
    CapacityCall =>
        /\ pc = "L174" =>
               /\ loc = NoLocals
               /\ L = [x |-> args.unbraced_length_x, y |-> args.unbraced_length_y,
                       z |-> args.unbraced_length_z]
        /\ pc # "L174" =>
               /\ L.x = IF args.unbraced_length_x = F(0, 0) THEN F(1, -5)
                        ELSE args.unbraced_length_x
               /\ L.y = IF args.unbraced_length_y = F(0, 0) THEN F(1, -5)
                        ELSE args.unbraced_length_y
               /\ L.z = IF args.unbraced_length_z = F(0, 0) THEN F(1, -5)
                        ELSE args.unbraced_length_z
        /\ loc.design_slenderness # None =>
               /\ loc.slenderness_x = FDiv(FMul(args.kx, L.x), loc.rx)
               /\ loc.slenderness_y = FDiv(FMul(args.ky, L.y), loc.ry)
        /\ loc.effective_length_z # None => loc.effective_length_z = FMul(L.z, args.kz)
        /\ pc = "returned" =>
               /\ loc.flexural_buckling_stress # None
               /\ loc.torsional_buckling_stress # None
               /\ loc.nominal_compressive_strength[1] > 0
        /\ PositiveFactors =>
               /\ error # "ZeroDivisionError"
               /\ pc = "raised" => args.design_method \notin {"nominal", "LRFD", "ASD"}

\* C7: before any other step each unbraced length that is exactly zero becomes
\* 0.00001 and every other length is kept; the limit states are computed with
\* the substituted lengths, none is skipped, and with positive effective-length
\* factors every step up to the match statement goes on to the next one, so
\* that the call returns a capacity without a division by zero.
C7_ZeroLengthSubstitution ==
    /\ []C7_Lengths
    /\ [][(CapacityCall /\ PositiveFactors /\ pc \notin {"idle", "L222", "returned", "raised"})
              => (pc' \notin {pc, "raised"} /\ error' = "")]_vars
    /\ [][(CapacityCall /\ PositiveFactors /\ pc = "L222"
              /\ args.design_method \in {"nominal", "LRFD", "ASD"})
              => (pc' = "returned" /\ result' # None)]_vars

\* A call with all three lengths zero returned a capacity.
C7_Witness ==
    /\ CapacityCall
    /\ pc = "returned"
    /\ args.unbraced_length_x = F(0, 0)
    /\ args.unbraced_length_y = F(0, 0)
    /\ args.unbraced_length_z = F(0, 0)
    /\ L = [x |-> F(1, -5), y |-> F(1, -5), z |-> F(1, -5)]
    /\ ~args.return_report
    /\ result[1][1] > 0

NoteWritten ==
    \/ pc \in {"L219", "L222", "returned"}
    \/ pc = "raised" /\ loc.nominal_compressive_strength # None

\* C9: the note is among the notes exactly when bf/(2 tf) exceeds the case 1
\* limit or (d - kdes)/tw exceeds the case 5 limit, both limits taken with the
\* caller's elastic modulus; nothing else of the call enters.
C9_SlenderNote ==
    (CapacityCall /\ NoteWritten) =>
        LET flange == FDiv(args.flange_width, FMul(F(2, 0), args.flange_thickness))
            web == FDiv(FSub(args.section_depth, args.kdes), args.web_thickness)
            slender == \/ FGt(flange, FlangeLimit(args.yield_stress, args.elastic_modulus))
                       \/ FGt(web, WebLimit(args.yield_stress, args.elastic_modulus))
        IN  /\ Has(notes, SLENDER_NOTE) <=> slender
            /\ notes = IF slender THEN <<SLENDER_NOTE>> ELSE <<>>
            /\ pc = "returned" => result[3] = notes

\* The note was returned for a web that is slender by depth - kdes only.
C9_Witness ==
    /\ CapacityCall
    /\ pc = "returned"
    /\ result[3] = <<SLENDER_NOTE>>
    /\ ~FGt(FDiv(args.flange_width, FMul(F(2, 0), args.flange_thickness)),
            FlangeLimit(args.yield_stress, args.elastic_modulus))
    /\ ~FGt(FDiv(FSub(args.section_depth, FMul(F(2, 0), args.kdes)), args.web_thickness),
            WebLimit(args.yield_stress, args.elastic_modulus))
    /\ ~IsZero(args.x_brace_offset)
    /\ args.design_method = "ASD"

\* C10: the torsional stress comes from the doubly-symmetric formula exactly
\* when both brace offsets are zero, and otherwise from the smaller of the two
\* offset elastic stresses; the offset warning is among the warnings exactly
\* when both offsets are non-zero, after the slenderness warning when both
\* apply, and the call goes on to return its capacity.
C10_TorsionalFormulaAndWarning ==
    (CapacityCall /\ loc.torsional_buckling_stress # None) =>
        LET xo == args.x_brace_offset
            yo == args.y_brace_offset
            z  == loc.effective_length_z
            major == ft_elastic_buckling_stress_i_major_axis_offset(
                         z, args.Ix, args.Iy, args.J, args.area, loc.r0, loc.h0, xo,
                         args.elastic_modulus, args.shear_modulus)
            minor == ft_elastic_buckling_stress_i_minor_axis_offset(
                         z, args.Iy, args.J, args.area, loc.r0, loc.h0, yo,
                         args.elastic_modulus, args.shear_modulus)
            symmetric == ft_elastic_buckling_stress_doubly_symmetric(
                             z, args.warping_constant, args.Ix, args.Iy, args.J,
                             args.elastic_modulus, args.shear_modulus)
            both == xo # F(0, 0) /\ yo # F(0, 0)
            neither == xo = F(0, 0) /\ yo = F(0, 0)
        IN  /\ neither => loc.torsional_buckling_stress =
                   nominal_flexural_buckling_stress(args.yield_stress, symmetric, None,
                                                    STEEL_ELASTIC_MODULUS)
            /\ ~neither => loc.torsional_buckling_stress =
                   nominal_flexural_buckling_stress(args.yield_stress,
                                                    IF FLt(minor, major) THEN minor ELSE major,
                                                    None, STEEL_ELASTIC_MODULUS)
            /\ Has(warnings, OFFSET_WARNING) <=> both
            /\ (both /\ Has(warnings, SLENDERNESS_WARNING)) =>
                   warnings = <<SLENDERNESS_WARNING, OFFSET_WARNING>>
            /\ (both /\ ~Has(warnings, SLENDERNESS_WARNING)) => warnings = <<OFFSET_WARNING>>
            /\ pc = "returned" => result[2] = warnings
            /\ pc = "raised" =>
                   error = "ValueError" /\ args.design_method \notin {"nominal", "LRFD", "ASD"}

\* A capacity was returned with both warnings, the slenderness warning first.
C10_Witness ==
    /\ CapacityCall
    /\ pc = "returned"
    /\ ~args.return_report
    /\ result[2] = <<SLENDERNESS_WARNING, OFFSET_WARNING>>
    /\ result[1][1] > 0

TorsionalLabels ==
    {"Nominal torsional buckling stress (Eqn E4-2)",
     "Nominal torsional buckling stress (Eqns E4-10, E4-12)"}

\* The rows a returned report must hold, in the order of the derivation.
ReportShape(rep) ==
    /\ Len(rep) = IF args.design_method = "nominal" THEN 6 ELSE 8
    /\ rep[1] = <<"Governing slenderness ratio, Lc/r", loc.design_slenderness, "">>
    /\ rep[2] = <<"Nominal flexural buckling stress (Eqns E3-2, E3-3)",
                  loc.flexural_buckling_stress, "stress">>
    /\ rep[3][1] \in TorsionalLabels
    /\ rep[3][2] = loc.torsional_buckling_stress
    /\ rep[3][3] = "stress"
    /\ rep[4] = <<"Governing nominal buckling stress, Fn", loc.nominal_stress, "stress">>
    /\ rep[5] = <<"Effective area accounting for slender elements, Ae (Sect. E7)",
                  loc.effective_area, "area">>
    /\ rep[6] = <<"Nominal compressive strength, Pn (Eqns E3-1, E4-1, E7-1)",
                  loc.nominal_compressive_strength, "force">>
    /\ args.design_method = "LRFD" =>
           /\ rep[7] = <<"Resistance factor, phi", F(90, -2), "">>
           /\ rep[8] = <<"Factored compressive strength, phi Pn",
                         FMul(F(90, -2), loc.nominal_compressive_strength), "force">>
    /\ args.design_method = "ASD" =>
           /\ rep[7] = <<"Safety factor, Omega", F(167, -2), "">>
           /\ rep[8] = <<"Allowable compressive strength, Pn/Omega",
                         FDiv(loc.nominal_compressive_strength, F(167, -2)), "force">>
    /\ \A i \in 1..Len(rep) :
           /\ Len(rep[i]) = 3
           /\ rep[i][2] # None
           /\ Len(rep[i][2]) = 2
           /\ rep[i][3] \in {"", "stress", "area", "force"}

IsPrefix(s, t) == Len(s) <= Len(t) /\ \A i \in 1..Len(s) : s[i] = t[i]

\* C11: with return_report the call returns the rows in the order of the
\* derivation (slenderness, flexural stress, torsional stress, Fn, Ae, Pn, and
\* for LRFD or ASD the factor and then the reduced strength), each with a
\* number and a dimension tag; every step after the report is created keeps
\* the rows written so far, in their places, and only appends.
C11_ReportRows ==
    /\ [](CapacityCall /\ pc = "returned" =>
              /\ ReportShape(report)
              /\ args.return_report => result[1] = report)
    /\ [][(CapacityCall /\ pc \in {"L183", "L187", "L193", "L197", "L210", "L212",
                                   "L216", "L219", "L222"})
              => IsPrefix(report, report')]_vars

\* An ASD call returned its eight rows as the report.
C11_Witness ==
    /\ CapacityCall
    /\ pc = "returned"
    /\ args.return_report
    /\ args.design_method = "ASD"
    /\ Len(result[1]) = 8
    /\ result[1][7][1] = "Safety factor, Omega"
    /\ result[1][8][2] = FDiv(loc.nominal_compressive_strength, F(167, -2))

\* rx^2 + ry^2 + xa^2 + ya^2, the right-hand side of Equation E4-11
PolarSum == FAdd(FAdd(FAdd(FSq(loc.rx), FSq(loc.ry)), FSq(args.x_brace_offset)),
                 FSq(args.y_brace_offset))

\* Equations E4-12 and E4-10 with A (rx^2 + ry^2 + xa^2 + ya^2) as denominator
MajorAxisFirstPower ==
    FDiv(FAdd(FMul(FDiv(FMul(FMul(FSq(PI), args.elastic_modulus), args.Iy),
                        FSq(loc.effective_length_z)),
                   FAdd(FDiv(FSq(loc.h0), F(4, 0)),
                        FMul(FDiv(args.Ix, args.Iy), FSq(args.x_brace_offset)))),
              FMul(args.shear_modulus, args.J)),
         FMul(args.area, PolarSum))

MinorAxisFirstPower ==
    FDiv(FAdd(FMul(FDiv(FMul(FMul(FSq(PI), args.elastic_modulus), args.Iy),
                        FSq(loc.effective_length_z)),
                   FAdd(FDiv(FSq(loc.h0), F(4, 0)), FSq(args.y_brace_offset))),
              FMul(args.shear_modulus, args.J)),
         FMul(args.area, PolarSum))

\* C12: in a call with a brace offset the two offset elastic stresses have
\* A (rx^2 + ry^2 + xa^2 + ya^2) as their denominator, the sum entering to the
\* first power, and the torsional stress is the nominal stress of the smaller
\* of the two.
C12_PolarTermFirstPower ==
    (/\ CapacityCall
     /\ loc.torsional_buckling_stress # None
     /\ AnyBraceOffset(args.x_brace_offset, args.y_brace_offset))
    => loc.torsional_buckling_stress =
           nominal_flexural_buckling_stress(args.yield_stress,
                                            FMin(MajorAxisFirstPower, MinorAxisFirstPower),
                                            None, STEEL_ELASTIC_MODULUS)

\* C13: with non-negative lengths and non-negative effective-length factors,
\* a factor of exactly 0 included, no call of w_section_capacity ends in a
\* division by zero: after the substitution of the zero lengths both
\* slendernesses' maximum and the effective torsional length are non-zero.
C13_NoDivisionByZero ==
    CapacityCall =>
        /\ error # "ZeroDivisionError"
        /\ loc.design_slenderness # None => ~IsZero(loc.design_slenderness)
        /\ loc.effective_length_z # None => ~IsZero(loc.effective_length_z)

\* C14: the effective area never exceeds the gross area, in a direct call of
\* w_section_effective_area and in the effective-area step of a capacity call.
C14_EffectiveAreaAtMostGross ==
    /\ (fn = "w_section_effective_area" /\ pc = "returned") =>
           FLe(unit.result, unit.section.area)
    /\ (CapacityCall /\ loc.effective_area # None) => FLe(loc.effective_area, args.area)

\* The classification made by the effective-area step (lines 156-159)
AreaStepSlender ==
    \/ is_slender_comp(FDiv(args.flange_width, FMul(F(2, 0), args.flange_thickness)),
                       limiting_wt_ratio_comp(1, STEEL_ELASTIC_MODULUS, args.yield_stress,
                                              None)[2])
    \/ is_slender_comp(FDiv(FSub(args.section_depth, FMul(F(2, 0), args.kdes)),
                            args.web_thickness),
                       limiting_wt_ratio_comp(5, STEEL_ELASTIC_MODULUS, args.yield_stress,
                                              None)[2])

\* C15: in one call, for every elastic modulus of the caller, whenever the
\* effective-area step classifies the flange or the web as slender (and
\* whenever the effective area differs from the gross area) the note "Shape
\* is slender for compression." is emitted too.
C15_ReducedAreaHasNote ==
    (CapacityCall /\ NoteWritten) =>
        /\ AreaStepSlender => Has(notes, SLENDER_NOTE)
        /\ loc.effective_area # args.area => Has(notes, SLENDER_NOTE)

\* C16: the label of the torsional row of the report cites the equation that
\* produced the value: Eqn E4-2 without brace offsets (doubly-symmetric
\* formula), Eqns E4-10, E4-12 with a brace offset (offset formulas).
C16_TorsionalLabel ==
    (CapacityCall /\ loc.torsional_buckling_stress # None) =>
        /\ Len(report) >= 3
        /\ report[3][2] = loc.torsional_buckling_stress
        /\ report[3][1] =
               IF AnyBraceOffset(args.x_brace_offset, args.y_brace_offset)
               THEN "Nominal torsional buckling stress (Eqns E4-10, E4-12)"
               ELSE "Nominal torsional buckling stress (Eqn E4-2)"

====
